---- MODULE Spec2Model ----
(***************************************************************************)
(* Model of notebooks/stochastic_training/node_classification.ipynb: the   *)
(* sequential execution of the notebook's code cells.  One action per cell *)
(* and, for the training-loop cell, one action per loop step.  The         *)
(* external libraries are modelled by what the notebook observes of them:  *)
(* whether an import raises and with which exception class, the item sets  *)
(* of the dataset, the order in which an ItemSampler yields its items, and *)
(* the accuracy value that the metrics function returns.                   *)
(***************************************************************************)
EXTENDS Integers, Sequences, FiniteSets, TLC

\* ---- bounds of the model ------------------------------------------------
\* sizes of the three splits of the dataset (ogbn-arxiv has ~170k nodes)
TrainSize == 2
ValidSize == 2
TestSize == 1
\* the ItemSampler's batch_size (1024 in the notebook), scaled to the splits
batch_size == 1

\* the values accuracy_score can return: the interval [0, 1] abstracted to
\* a lower and a higher accuracy
AccuracyValues == {0, 1}

\* ---- program constants --------------------------------------------------
\* for epoch in range(10)
NumEpochs == 10

VARIABLES
    env,              \* what importing the external library does on this machine
    pc,               \* the cell (or loop position) to execute next
    raised,           \* the exception that propagated out of a cell, or "none"
    installed,        \* the notebook global `installed` ("unbound" before)
    bound,            \* which of the module names dgl, gb are bound
    output,           \* everything printed so far, in order
    train_set, valid_set, test_set,
    loaders,          \* number of DataLoader objects created so far
    train_dataloader, valid_dataloader,
    data,             \* the global `data`: the current minibatch
    model,            \* mode and number of parameter updates applied
    opt,              \* whether the optimizer exists
    epoch, step,      \* loop variables (-1: unbound)
    tq,               \* minibatches the current iterator has not yielded yet
    labels,           \* labels collected so far by the validation pass
    accuracy,         \* the global `accuracy` (-1: unbound)
    saved             \* model checkpoints written to a file

vars == << env, pc, raised, installed, bound, output, train_set, valid_set,
           test_set, loaders, train_dataloader, valid_dataloader, data, model,
           opt, epoch, step, tq, labels, accuracy, saved >>

\* ---- helpers ------------------------------------------------------------
Range(s) == { s[i] : i \in 1..Len(s) }

None == [id |-> 0, itemset |-> << >>, shuffle |-> FALSE]
NoData == [loader |-> 0, seeds |-> << >>]

\* one printed line (or progress-bar update)
Line(kind, e, st, seeds, acc) ==
    [kind |-> kind, epoch |-> e, step |-> st, seeds |-> seeds, acc |-> acc]
Say(kind) == Line(kind, -1, -1, << >>, -1)

\* the item ids of the splits: disjoint seed nodes
TrainItems == [i \in 1..TrainSize |-> i]
ValidItems == [i \in 1..ValidSize |-> TrainSize + i]
TestItems == [i \in 1..TestSize |-> TrainSize + ValidSize + i]

\* all orders in which a shuffling sampler can yield the items of s
Perms(s) ==
    { p \in [1..Len(s) -> Range(s)] :
        \A i, j \in 1..Len(s) : p[i] = p[j] => i = j }

\* ItemSampler: consecutive batches of batch_size items, the last one partial
RECURSIVE Batches(_, _)
Batches(s, bs) ==
    IF Len(s) = 0 THEN << >>
    ELSE IF Len(s) <= bs THEN << s >>
    ELSE << SubSeq(s, 1, bs) >> \o Batches(SubSeq(s, bs + 1, Len(s)), bs)

RECURSIVE Flatten(_)
Flatten(ss) == IF Len(ss) = 0 THEN << >> ELSE Head(ss) \o Flatten(Tail(ss))

\* def create_dataloader(itemset, shuffle): a new DataLoader object
create_dataloader(id, itemset, shuffle) ==
    [id |-> id, itemset |-> itemset, shuffle |-> shuffle]

\* iter(dataloader): the possible sequences of minibatches of one pass
Iter(dl) ==
    IF dl.shuffle
    THEN { Batches(p, batch_size) : p \in Perms(dl.itemset) }
    ELSE { Batches(dl.itemset, batch_size) }

ImportOutcomes ==
    { "ok", "dgl_ImportError", "gb_ImportError", "dgl_OtherError",
      "gb_OtherError" }

Init ==
    /\ env \in ImportOutcomes
    /\ pc = "install"
    /\ raised = "none"
    /\ installed = "unbound"
    /\ bound = {}
    /\ output = << >>
    /\ train_set = << >> /\ valid_set = << >> /\ test_set = << >>
    /\ loaders = 0
    /\ train_dataloader = None /\ valid_dataloader = None
    /\ data = NoData
    /\ model = [mode |-> "none", version |-> 0]
    /\ opt = FALSE
    /\ epoch = -1 /\ step = -1
    /\ tq = << >>
    /\ labels = << >>
    /\ accuracy = -1
    /\ saved = << >>

\* variant of the install cell whose except branch does not print(error)
InstallCellSilent ==
    /\ pc = "install"
    /\ CASE env = "ok" ->
              /\ bound' = {"dgl", "gb"}
              /\ installed' = "True"
              /\ output' = output \o << Say("DGL installed!") >>
              /\ raised' = "none"
              /\ pc' = "load"
         [] env \in {"dgl_ImportError", "gb_ImportError"} ->
              /\ bound' = IF env = "gb_ImportError" THEN {"dgl"} ELSE {}
              /\ installed' = "False"
              /\ output' = output \o << Say("DGL not found!") >>
              /\ raised' = "none"
              /\ pc' = "load"
         [] OTHER ->
              /\ bound' = IF env = "gb_OtherError" THEN {"dgl"} ELSE {}
              /\ installed' = installed
              /\ output' = output
              /\ raised' = "OtherError"
              /\ pc' = "error"
    /\ UNCHANGED << env, train_set, valid_set, test_set, loaders,
                    train_dataloader, valid_dataloader, data, model, opt,
                    epoch, step, tq, labels, accuracy, saved >>

\* ---- cell 1: install / import guard --------------------------------------
InstallCell ==
    /\ pc = "install"
    /\ CASE env = "ok" ->
              \* both imports succeed; installed = True
              /\ bound' = {"dgl", "gb"}
              /\ installed' = "True"
              /\ output' = output \o << Say("DGL installed!") >>
              /\ raised' = "none"
              /\ pc' = "load"
         [] env \in {"dgl_ImportError", "gb_ImportError"} ->
              \* except ImportError as error: installed = False; print(error)
              /\ bound' = IF env = "gb_ImportError" THEN {"dgl"} ELSE {}
              /\ installed' = "False"
              /\ output' = output \o << Say("error"), Say("DGL not found!") >>
              /\ raised' = "none"
              /\ pc' = "load"
         [] OTHER ->
              \* an exception that is not an ImportError is not caught
              /\ bound' = IF env = "gb_OtherError" THEN {"dgl"} ELSE {}
              /\ installed' = installed
              /\ output' = output
              /\ raised' = "OtherError"
              /\ pc' = "error"
    /\ UNCHANGED << env, train_set, valid_set, test_set, loaders,
                    train_dataloader, valid_dataloader, data, model, opt,
                    epoch, step, tq, labels, accuracy, saved >>

\* a cell that uses a module name that the install cell did not bind
NameError(name) == name \notin bound

Fail(exc) ==
    /\ raised' = exc
    /\ pc' = "error"

\* ---- cell 2: dataset = gb.BuiltinDataset("ogbn-arxiv-seeds").load() ------
LoadDatasetCell ==
    /\ pc = "load"
    /\ IF NameError("gb") THEN Fail("NameError")
       ELSE pc' = "task" /\ raised' = raised
    /\ UNCHANGED << env, installed, bound, output, train_set, valid_set,
                    test_set, loaders, train_dataloader, valid_dataloader,
                    data, model, opt, epoch, step, tq, labels, accuracy,
                    saved >>

\* ---- cell 3: the splits of tasks[0]; print(f"Task: ...") -----------------
TaskCell ==
    /\ pc = "task"
    /\ train_set' = TrainItems
    /\ valid_set' = ValidItems
    /\ test_set' = TestItems
    /\ output' = output \o << Say("task") >>
    /\ pc' = "def_dataloader"
    /\ UNCHANGED << env, raised, installed, bound, loaders, train_dataloader,
                    valid_dataloader, data, model, opt, epoch, step, tq,
                    labels, accuracy, saved >>

\* ---- cell 4: def create_dataloader(itemset, shuffle) ---------------------
DefCreateDataloaderCell ==
    /\ pc = "def_dataloader"
    /\ pc' = "peek"
    /\ UNCHANGED << env, raised, installed, bound, output, train_set,
                    valid_set, test_set, loaders, train_dataloader,
                    valid_dataloader, data, model, opt, epoch, step, tq,
                    labels, accuracy, saved >>

\* ---- cell 5: data = next(iter(create_dataloader(train_set, True))) -------
PeekCell ==
    /\ pc = "peek"
    /\ loaders' = loaders + 1
    /\ \E it \in Iter(create_dataloader(loaders + 1, train_set, TRUE)) :
          /\ data' = [loader |-> loaders + 1, seeds |-> Head(it)]
          /\ output' = output \o << Line("minibatch", -1, -1, Head(it), -1) >>
    /\ pc' = "input_nodes"
    /\ UNCHANGED << env, raised, installed, bound, train_set, valid_set,
                    test_set, train_dataloader, valid_dataloader, model, opt,
                    epoch, step, tq, labels, accuracy, saved >>

\* ---- cell 6: input_nodes = mfgs[0].srcdata[dgl.NID]; print ---------------
InputNodesCell ==
    /\ pc = "input_nodes"
    /\ IF NameError("dgl") THEN Fail("NameError") /\ output' = output
       ELSE /\ output' = output \o << Say("input_nodes") >>
            /\ pc' = "model"
            /\ raised' = raised
    /\ UNCHANGED << env, installed, bound, train_set, valid_set, test_set,
                    loaders, train_dataloader, valid_dataloader, data, model,
                    opt, epoch, step, tq, labels, accuracy, saved >>

\* ---- cell 7: class Model; model = Model(in_size, 64, num_classes) --------
ModelCell ==
    /\ pc = "model"
    /\ model' = [mode |-> "train", version |-> 0]
    /\ pc' = "opt"
    /\ UNCHANGED << env, raised, installed, bound, output, train_set,
                    valid_set, test_set, loaders, train_dataloader,
                    valid_dataloader, data, opt, epoch, step, tq, labels,
                    accuracy, saved >>

\* ---- cell 8: opt = torch.optim.Adam(model.parameters()) ------------------
OptCell ==
    /\ pc = "opt"
    /\ opt' = TRUE
    /\ pc' = "dataloaders"
    /\ UNCHANGED << env, raised, installed, bound, output, train_set,
                    valid_set, test_set, loaders, train_dataloader,
                    valid_dataloader, data, model, epoch, step, tq, labels,
                    accuracy, saved >>

\* variant of the dataloaders cell that builds train_dataloader on valid_set
DataloadersCellWrongSplit ==
    /\ pc = "dataloaders"
    /\ train_dataloader' = create_dataloader(loaders + 1, valid_set, TRUE)
    /\ valid_dataloader' = create_dataloader(loaders + 2, valid_set, FALSE)
    /\ loaders' = loaders + 2
    /\ pc' = "loop"
    /\ UNCHANGED << env, raised, installed, bound, output, train_set,
                    valid_set, test_set, data, model, opt, epoch, step, tq,
                    labels, accuracy, saved >>

\* ---- cell 9: the two dataloaders ----------------------------------------
DataloadersCell ==
    /\ pc = "dataloaders"
    /\ train_dataloader' = create_dataloader(loaders + 1, train_set, TRUE)
    /\ valid_dataloader' = create_dataloader(loaders + 2, valid_set, FALSE)
    /\ loaders' = loaders + 2
    /\ pc' = "loop"
    /\ UNCHANGED << env, raised, installed, bound, output, train_set,
                    valid_set, test_set, data, model, opt, epoch, step, tq,
                    labels, accuracy, saved >>

\* variant of the loop head in which the first epoch continues the iterator
\* that the peek cell took its minibatch from
LoopHeadSharedIterator ==
    /\ pc = "loop"
    /\ IF epoch + 1 < NumEpochs
       THEN /\ epoch' = epoch + 1
            /\ model' = [model EXCEPT !.mode = "train"]
            /\ IF epoch + 1 = 0
               THEN tq' \in { Tail(it) : it \in
                               { i \in Iter(train_dataloader) :
                                   Head(i) = data.seeds } }
               ELSE tq' \in Iter(train_dataloader)
            /\ pc' = "train"
       ELSE /\ pc' = "done"
            /\ UNCHANGED << epoch, model, tq >>
    /\ UNCHANGED << env, raised, installed, bound, output, train_set,
                    valid_set, test_set, loaders, train_dataloader,
                    valid_dataloader, data, opt, step, labels, accuracy,
                    saved >>

\* ---- cell 10: the training loop -----------------------------------------
\* for epoch in range(10): model.train(); with tqdm(train_dataloader) as tq
LoopHead ==
    /\ pc = "loop"
    /\ IF epoch + 1 < NumEpochs
       THEN /\ epoch' = epoch + 1
            /\ model' = [model EXCEPT !.mode = "train"]
            /\ tq' \in Iter(train_dataloader)
            /\ pc' = "train"
       ELSE /\ pc' = "done"
            /\ UNCHANGED << epoch, model, tq >>
    /\ UNCHANGED << env, raised, installed, bound, output, train_set,
                    valid_set, test_set, loaders, train_dataloader,
                    valid_dataloader, data, opt, step, labels, accuracy,
                    saved >>

\* one iteration of `for step, data in enumerate(tq)`: forward, loss,
\* zero_grad, backward, opt.step(), accuracy, tq.set_postfix
TrainStep ==
    /\ pc = "train"
    /\ tq # << >>
    /\ data' = [loader |-> train_dataloader.id, seeds |-> Head(tq)]
    /\ tq' = Tail(tq)
    /\ step' = Len(Batches(train_dataloader.itemset, batch_size)) - Len(tq)
    /\ model' = [model EXCEPT !.version = @ + 1]
    /\ accuracy' \in AccuracyValues
    /\ output' = output \o << Line("postfix", epoch, step', << >>, -1) >>
    /\ UNCHANGED << env, pc, raised, installed, bound, train_set, valid_set,
                    test_set, loaders, train_dataloader, valid_dataloader,
                    opt, epoch, labels, saved >>

\* variant of the end of the training pass that may leave the pass early
TrainEndEarly ==
    /\ pc = "train"
    /\ model' = [model EXCEPT !.mode = "eval"]
    /\ labels' = << >>
    /\ tq' \in Iter(valid_dataloader)
    /\ pc' = "valid"
    /\ UNCHANGED << env, raised, installed, bound, output, train_set,
                    valid_set, test_set, loaders, train_dataloader,
                    valid_dataloader, data, opt, epoch, step, accuracy,
                    saved >>

\* the training pass is exhausted: model.eval(); predictions = [];
\* labels = []; with tqdm(valid_dataloader) as tq, torch.no_grad()
TrainEnd ==
    /\ pc = "train"
    /\ tq = << >>
    /\ model' = [model EXCEPT !.mode = "eval"]
    /\ labels' = << >>
    /\ tq' \in Iter(valid_dataloader)
    /\ pc' = "valid"
    /\ UNCHANGED << env, raised, installed, bound, output, train_set,
                    valid_set, test_set, loaders, train_dataloader,
                    valid_dataloader, data, opt, epoch, step, accuracy,
                    saved >>

\* one iteration of `for data in tq` of the validation pass
ValidStep ==
    /\ pc = "valid"
    /\ tq # << >>
    /\ data' = [loader |-> valid_dataloader.id, seeds |-> Head(tq)]
    /\ tq' = Tail(tq)
    /\ labels' = labels \o Head(tq)
    /\ UNCHANGED << env, pc, raised, installed, bound, output, train_set,
                    valid_set, test_set, loaders, train_dataloader,
                    valid_dataloader, model, opt, epoch, step, accuracy,
                    saved >>

\* the validation pass is exhausted: np.concatenate, accuracy_score,
\* print("Epoch {} Validation Accuracy {}")
ValidEnd ==
    /\ pc = "valid"
    /\ tq = << >>
    /\ accuracy' \in AccuracyValues
    /\ output' = output \o << Line("valid", epoch, -1, labels, accuracy') >>
    /\ pc' = "loop"
    /\ UNCHANGED << env, raised, installed, bound, train_set, valid_set,
                    test_set, loaders, train_dataloader, valid_dataloader,
                    data, model, opt, epoch, step, tq, labels, saved >>

Next ==
    \/ InstallCell
    \/ LoadDatasetCell
    \/ TaskCell
    \/ DefCreateDataloaderCell
    \/ PeekCell
    \/ InputNodesCell
    \/ ModelCell
    \/ OptCell
    \/ DataloadersCell
    \/ LoopHead
    \/ TrainStep
    \/ TrainEnd
    \/ ValidStep
    \/ ValidEnd

Spec == Init /\ [][Next]_vars

\* ---- properties -----------------------------------------------------------
\* the positions of the output, and counting helpers over the output
Pos == 1..Len(output)
ValidPos == { k \in Pos : output[k].kind = "valid" }
ValidBefore(k) == Cardinality({ j \in ValidPos : j < k })
PostfixOf(e) == { k \in Pos : output[k].kind = "postfix" /\ output[k].epoch = e }
NumTrainBatches == Len(Batches(TrainItems, batch_size))

\* C1: validation is performed every epoch.  The validation lines in the
\* output are those of epochs 0, 1, 2, ... in this order, one per epoch;
\* every training step of epoch e is made after the line of epoch e-1 and
\* before the line of epoch e; when the line of epoch e is printed the
\* training pass of epoch e has made all its steps and the validation pass
\* has collected the whole validation set exactly once; after the loop
\* there are exactly 10 validation lines.
ValidationEveryEpoch ==
    /\ \A k \in ValidPos :
          /\ output[k].epoch = ValidBefore(k)
          /\ output[k].seeds = ValidItems
          /\ Cardinality({ j \in PostfixOf(output[k].epoch) : j < k })
                = NumTrainBatches
          /\ { output[j].step : j \in PostfixOf(output[k].epoch) }
                = 0..(NumTrainBatches - 1)
    /\ \A k \in Pos :
          output[k].kind = "postfix" => output[k].epoch = ValidBefore(k)
    /\ Cardinality(ValidPos) = (IF pc \in {"train", "valid"} THEN epoch ELSE epoch + 1)
    /\ pc \in {"train", "valid"} => epoch \in 0..(NumEpochs - 1)
    /\ pc = "valid" => Cardinality(PostfixOf(epoch)) = NumTrainBatches
    /\ pc = "done" => Cardinality(ValidPos) = NumEpochs

\* the loop has finished and printed the line of the last epoch
ValidationEveryEpochWitness ==
    /\ pc = "done"
    /\ output[Len(output)].kind = "valid"
    /\ output[Len(output)].epoch = NumEpochs - 1

\* C2: after the loop a saved model exists, and it is the model state of an
\* epoch whose validation accuracy is the maximum over all epochs executed.
MaxValidAcc ==
    CHOOSE a \in { output[k].acc : k \in ValidPos } :
        \A k \in ValidPos : output[k].acc <= a
SavedBestModel ==
    pc = "done" =>
        /\ saved # << >>
        /\ \E k \in ValidPos :
              /\ output[k].epoch = saved[Len(saved)].epoch
              /\ output[k].acc = MaxValidAcc

\* C3 as stated: once the install cell has run, no ImportError has
\* propagated; a failed import has printed the error and "DGL not found!"
\* with installed False; a successful import has printed "DGL installed!"
\* and no error with installed True; and exactly one status line is printed
\* in every execution of the cell.
StatusPos ==
    { k \in Pos : output[k].kind \in {"DGL installed!", "DGL not found!"} }
Printed(kind) == \E k \in Pos : output[k].kind = kind
ImportFailed == env # "ok"
ImportRaisedImportError == env \in {"dgl_ImportError", "gb_ImportError"}
CellRan == pc # "install"
ImportGuardEveryExecution ==
    CellRan =>
        /\ raised # "ImportError"
        /\ ImportFailed =>
              /\ installed = "False"
              /\ Printed("error")
              /\ Printed("DGL not found!")
        /\ ~ImportFailed =>
              /\ installed = "True"
              /\ ~Printed("error")
              /\ Printed("DGL installed!")
        /\ Cardinality(StatusPos) = 1

\* C3 (amended): once the install cell has run, no ImportError has
\* propagated; an import that raised ImportError has printed the error and
\* then "DGL not found!" with installed False; a successful import has
\* printed "DGL installed!" and no error with installed True; in both cases
\* exactly one status line is printed.  An exception of another class is not
\* caught: it propagates, installed stays unbound and no status line is
\* printed.
ImportGuard ==
    CellRan =>
        /\ raised # "ImportError"
        /\ ImportRaisedImportError =>
              /\ installed = "False"
              /\ Len(output) = 2
              /\ output[1].kind = "error"
              /\ output[2].kind = "DGL not found!"
        /\ ~ImportFailed =>
              /\ installed = "True"
              /\ ~Printed("error")
              /\ output[1].kind = "DGL installed!"
              /\ Cardinality(StatusPos) = 1
        /\ (ImportFailed /\ ~ImportRaisedImportError) =>
              /\ raised = "OtherError"
              /\ installed = "unbound"
              /\ output = << >>

\* the cell has run on a machine where dgl imports but dgl.graphbolt raises
\* ImportError
ImportGuardWitness ==
    /\ CellRan
    /\ env = "gb_ImportError"
    /\ installed = "False"
    /\ Printed("DGL not found!")

\* C4: the two dataloaders are separate objects, train_dataloader over
\* train_set with shuffling and valid_dataloader over valid_set without;
\* the training pass only holds minibatches of train_set, the validation
\* pass yields valid_set in its stored order, and every parameter update is
\* made from a minibatch that train_dataloader drew from train_set, never
\* from a seed of valid_set or test_set.
LoadersBuilt == pc \in {"loop", "train", "valid", "done"}
SeparateDataloaders ==
    /\ [](LoadersBuilt =>
            /\ train_dataloader.id # valid_dataloader.id
            /\ train_dataloader.itemset = train_set
            /\ train_dataloader.shuffle
            /\ valid_dataloader.itemset = valid_set
            /\ ~valid_dataloader.shuffle
            /\ pc = "train" => Range(Flatten(tq)) \subseteq Range(train_set)
            /\ pc = "valid" => labels \o Flatten(tq) = valid_set)
    /\ [][model'.version # model.version =>
            /\ data'.loader = train_dataloader.id
            /\ data'.seeds # << >>
            /\ Range(data'.seeds) \subseteq Range(train_set)
            /\ Range(data'.seeds) \cap (Range(valid_set) \cup Range(test_set))
                  = {}]_vars

\* a parameter update has been made and a validation pass is under way
SeparateDataloadersWitness ==
    /\ pc = "valid"
    /\ model.version > 0
    /\ labels # << >>
    /\ data.loader = valid_dataloader.id

\* C5: in a run whose imports succeed, the task line is printed once, then
\* the peeked minibatch once, then its input nodes once, and only then the
\* per-epoch training updates and validation lines; the peeked minibatch
\* comes from the first DataLoader object created, which is neither
\* train_dataloader nor valid_dataloader (the second and third), and every
\* training pass, the first included, starts with all of train_set and
\* makes all its steps.
KindPos(kind) == { k \in Pos : output[k].kind = kind }
EpochPos == { k \in Pos : output[k].kind \in {"postfix", "valid"} }
Once(kind, after) ==
    /\ Cardinality(KindPos(kind)) <= 1
    /\ pc \in after => Cardinality(KindPos(kind)) = 1
AfterTask ==
    {"def_dataloader", "peek", "input_nodes", "model", "opt", "dataloaders",
     "loop", "train", "valid", "done"}
AfterPeek == AfterTask \ {"def_dataloader", "peek"}
AfterInputNodes == AfterPeek \ {"input_nodes"}
OutputOrder ==
    env = "ok" =>
        /\ Once("task", AfterTask)
        /\ Once("minibatch", AfterPeek)
        /\ Once("input_nodes", AfterInputNodes)
        /\ \A t \in KindPos("task"), m \in KindPos("minibatch") : t < m
        /\ \A m \in KindPos("minibatch"), i \in KindPos("input_nodes") : m < i
        /\ \A k \in EpochPos :
              /\ \E t \in KindPos("task") : t < k
              /\ \E m \in KindPos("minibatch") : m < k
              /\ \E i \in KindPos("input_nodes") : i < k
        /\ \A m \in KindPos("minibatch") :
              /\ Range(output[m].seeds) \subseteq Range(train_set)
              /\ output[m].seeds # << >>
        /\ (pc \in AfterPeek /\ epoch = -1) => data.loader = 1
        /\ LoadersBuilt =>
              /\ loaders = 3
              /\ train_dataloader.id = 2
              /\ valid_dataloader.id = 3
        /\ pc = "train" =>
              /\ Len(tq) + Cardinality(PostfixOf(epoch)) = NumTrainBatches
              /\ PostfixOf(epoch) = {} => Flatten(tq) \in Perms(train_set)

\* the first training pass has made a step after the three lines were printed
OutputOrderWitness ==
    /\ env = "ok"
    /\ pc = "train"
    /\ epoch = 0
    /\ Len(output) = 5
    /\ output[2].kind = "task"
    /\ output[3].kind = "minibatch"
    /\ output[4].kind = "input_nodes"
    /\ output[5].kind = "postfix"
====
